---- MODULE Spec2Model ----
(***************************************************************************)
(* A model of the UkNOw card tracker: UnoCard, UnoDeck, CardCountsIndex,   *)
(* CombinationCount and GameStateTracker (src/src/uno.py and               *)
(* src/src/combinatorics.py), with the harness of src/src/test_uno.py.     *)
(*                                                                         *)
(* Objects are records, methods are operators from the object (and the     *)
(* arguments) to the object after the call.  A call that raises returns    *)
(* the object as the exception left it, with the exception's name in the   *)
(* field "raised".  Python ints are unbounded, so the binomial             *)
(* coefficients are kept as unbounded naturals (sequences of limbs).       *)
(***************************************************************************)
EXTENDS Integers, Sequences, FiniteSets, Bags, TLC

\* ------------------------------------------------------------------ bounds
\* Event calls made on one tracker.
MaxCalls == 2
\* Largest num_cards handed to ev_other_player_drew.
MaxNumCards == 2
\* The largest max_items a CombinationCount of SpecTable is built with; 16
\* items have counts that need two limbs.
MaxItems == 16
\* Calls of count on one CardCountsIndex.
MaxCounts == 4

\* ------------------------------------------------------------- Python bits
\* None, for an attribute of a card (colours, numbers and actions are ints).
None == -1
\* No exception.
OK == "OK"
\* Optional[UnoCard]: <<>> is None, <<card>> is a card.
NoCard == <<>>
Some(card) == <<card>>

RECURSIVE SumOver(_, _)
\* sum(f[k] for k in keys)
SumOver(f, keys) ==
    IF keys = {} THEN 0
    ELSE LET k == CHOOSE x \in keys : TRUE
         IN  f[k] + SumOver(f, keys \ {k})

\* collections.Counter: a missing key reads as 0.
Counter_new == <<>>
Counter_get(counter, key) == IF key \in DOMAIN counter THEN counter[key] ELSE 0
\* counter[key] += 1: the counts are positive, so the counter is a bag, and
\* the increment is the bag union with one copy of key.
Counter_incr(counter, key) == counter (+) SetToBag({key})
\* Counter.total(): the counts are positive, so the counter is a bag.
Counter_total(counter) == BagCardinality(counter)

\* ------------------------------------------------------- unbounded ints
\* A Python int that may exceed 32 bits: its limbs in base Base, the least
\* significant first, with no leading zero limb (<<>> is 0).
Base == 10 ^ 4

RECURSIVE BigOf(_)
BigOf(n) == IF n = 0 THEN <<>> ELSE <<n % Base>> \o BigOf(n \div Base)

Limb(a, i) == IF i <= Len(a) THEN a[i] ELSE 0

RECURSIVE BigAddFrom(_, _, _, _)
BigAddFrom(a, b, i, carry) ==
    IF i > Len(a) /\ i > Len(b)
    THEN (IF carry = 0 THEN <<>> ELSE <<carry>>)
    ELSE LET t == Limb(a, i) + Limb(b, i) + carry
         IN  <<t % Base>> \o BigAddFrom(a, b, i + 1, t \div Base)

BigAdd(a, b) == BigAddFrom(a, b, 1, 0)

RECURSIVE BigLessFrom(_, _, _)
\* a < b on the limbs i..1, for a and b of the same length
BigLessFrom(a, b, i) ==
    IF i = 0 THEN FALSE
    ELSE IF a[i] # b[i] THEN a[i] < b[i]
    ELSE BigLessFrom(a, b, i - 1)

BigLess(a, b) ==
    IF Len(a) # Len(b) THEN Len(a) < Len(b) ELSE BigLessFrom(a, b, Len(a))

BigLeq(a, b) == a = b \/ BigLess(a, b)

RECURSIVE Trim(_)
Trim(a) ==
    IF a = <<>> \/ a[Len(a)] # 0 THEN a ELSE Trim(SubSeq(a, 1, Len(a) - 1))

RECURSIVE BigSubFrom(_, _, _, _)
BigSubFrom(a, b, i, borrow) ==
    IF i > Len(a) THEN <<>>
    ELSE LET t == a[i] - Limb(b, i) - borrow
         IN  IF t < 0
             THEN <<t + Base>> \o BigSubFrom(a, b, i + 1, 1)
             ELSE <<t>> \o BigSubFrom(a, b, i + 1, 0)

\* a - b, for b <= a
BigSub(a, b) == Trim(BigSubFrom(a, b, 1, 0))

RECURSIVE BigScaleFrom(_, _, _, _)
\* a * m for a limb m
BigScaleFrom(a, m, i, carry) ==
    IF i > Len(a) THEN (IF carry = 0 THEN <<>> ELSE <<carry>>)
    ELSE LET t == a[i] * m + carry
         IN  <<t % Base>> \o BigScaleFrom(a, m, i + 1, t \div Base)

RECURSIVE BigMulFrom(_, _, _)
\* a * (the limbs of b from the i-th)
BigMulFrom(a, b, i) ==
    IF i > Len(b) THEN <<>>
    ELSE BigAdd(Trim(BigScaleFrom(a, b[i], 1, 0)),
                LET rest == BigMulFrom(a, b, i + 1)
                IN  IF rest = <<>> THEN <<>> ELSE <<0>> \o rest)

BigMul(a, b) == BigMulFrom(a, b, 1)

\* A Python float that is a quotient of ints, kept exact: num / den, den > 0.
Frac(num, den) == [num |-> num, den |-> den]
FracOfInt(n) == Frac(BigOf(n), BigOf(1))
FracEq(x, y) == BigMul(x.num, y.den) = BigMul(y.num, x.den)
FracLeq(x, y) == BigLeq(BigMul(x.num, y.den), BigMul(y.num, x.den))
FracLess(x, y) == BigLess(BigMul(x.num, y.den), BigMul(y.num, x.den))
FracAdd(x, y) ==
    Frac(BigAdd(BigMul(x.num, y.den), BigMul(y.num, x.den)),
         BigMul(x.den, y.den))
\* x - y, for y <= x
FracSub(x, y) ==
    Frac(BigSub(BigMul(x.num, y.den), BigMul(y.num, x.den)),
         BigMul(x.den, y.den))

\* ------------------------------------------------------------ combinatorics
RECURSIVE binomial_row(_, _, _, _)
\* Row i of the table in the columns lo..hi, given row i - 1: 1 in columns 0
\* and i, the sum of the two entries above in the columns between, 0 beyond
\* i.  (The columns are split in halves to keep the evaluation shallow.)
binomial_row(prev, i, lo, hi) ==
    IF lo > hi THEN <<>>
    ELSE IF lo = hi
    THEN << IF lo = 0 \/ lo = i THEN BigOf(1)
            ELSE IF lo < i THEN BigAdd(prev[lo], prev[lo + 1])
            ELSE BigOf(0) >>
    ELSE LET mid == (lo + hi) \div 2
         IN  binomial_row(prev, i, lo, mid) \o binomial_row(prev, i, mid + 1, hi)

RECURSIVE binomial_rows(_, _, _, _)
\* The rows lo..hi of the table, given row lo - 1, each row from the one
\* above it.  (The rows are split in halves to keep the evaluation shallow.)
binomial_rows(above, lo, hi, limit) ==
    IF lo = hi THEN << binomial_row(above, lo, 0, limit - 1) >>
    ELSE LET mid == (lo + hi) \div 2
             upper == binomial_rows(above, lo, mid, limit)
         IN  upper \o binomial_rows(upper[Len(upper)], mid + 1, hi, limit)

\* CombinationCount(max_items).binomial_coefficients: entry [n][c] of the
\* code is entry [n + 1][c + 1] here.
CombinationCount(max_items) == binomial_rows(<<>>, 0, max_items, max_items + 1)

\* a_list[index] of Python: a negative index counts from the end.
list_index(a_list, index) ==
    IF index >= Len(a_list) \/ index < -Len(a_list)
    THEN [raised |-> "IndexError", value |-> <<>>]
    ELSE [raised |-> OK,
          value |-> a_list[(IF index < 0 THEN index + Len(a_list) ELSE index) + 1]]

\* nCr reading the table as [c][n].
nCr_transposed(binomial_coefficients, n, c) ==
    IF c > n
    THEN [raised |-> "ValueError", value |-> <<>>]
    ELSE LET row == list_index(binomial_coefficients, c)
         IN  IF row.raised # OK THEN row ELSE list_index(row.value, n)

\* CombinationCount.nCr on the table binomial_coefficients
nCr(binomial_coefficients, n, c) ==
    IF c > n
    THEN [raised |-> "ValueError", value |-> <<>>]
    ELSE LET row == list_index(binomial_coefficients, n)
         IN  IF row.raised # OK THEN row ELSE list_index(row.value, c)

\* ------------------------------------------------------------------- cards
RED == 1
YELLOW == 2
GREEN == 3
BLUE == 4
CardColor == {RED, YELLOW, GREEN, BLUE}

SKIP == 1
DRAWTWO == 2
DRAWFOUR == 3
REVERSE == 4
CardAction == {SKIP, DRAWTWO, DRAWFOUR, REVERSE}

UnoCard(color, number, action) ==
    [color |-> color, number |-> number, action |-> action]

\* _attr_cmp with "a is b" alone: two absent attributes compare as equal.
attr_cmp_none_is_none(a, b) == a = b

\* _attr_cmp: "a is b" is equality for the members of an enum and for the
\* numbers 0..9, which CPython keeps as single objects.
attr_cmp(a, b) == a # None /\ a = b

is_wildcard(card) == card.color = None /\ card.number = None

matches(self, card) ==
    \/ is_wildcard(self)
    \/ is_wildcard(card)
    \/ attr_cmp(self.color, card.color)
    \/ attr_cmp(self.number, card.number)
    \/ attr_cmp(self.action, card.action)

\* -------------------------------------------------------------------- deck
WILDCARD_COUNT == 4
DRAWFOUR_COUNT == 4
ZERO_COUNT == 1
NONZERO_COUNT == 2
ACTION_CARD_COUNT == 2
PER_COLOR_COUNT == 25
PER_ZERO_COUNT == ZERO_COUNT * Cardinality(CardColor)
PER_NONZERO_COUNT == NONZERO_COUNT * Cardinality(CardColor)
PER_ACTION_CARD_COUNT == ACTION_CARD_COUNT * Cardinality(CardColor)

\* The keys UnoDeck.__init__ assigns to one colour, in the order it assigns
\* them: 0, 1..9, then the actions of list(CardAction) but DRAWFOUR.
UnoDeck_color_keys(color) ==
    [i \in 1..10 |-> UnoCard(color, i - 1, None)]
    \o <<UnoCard(color, None, SKIP), UnoCard(color, None, DRAWTWO),
         UnoCard(color, None, REVERSE)>>

\* list(self.deck.keys()) of a fresh deck: a dict keeps the order in which
\* its keys were assigned.
UnoDeck_key_list ==
    <<UnoCard(None, None, None), UnoCard(None, None, DRAWFOUR)>>
    \o UnoDeck_color_keys(RED) \o UnoDeck_color_keys(YELLOW)
    \o UnoDeck_color_keys(GREEN) \o UnoDeck_color_keys(BLUE)

\* UnoDeck.__init__ without the test of line 90: every colour gets DRAWFOUR
\* cards too.
UnoDeck_init_drawfour_per_color ==
    [card \in {UnoCard(None, None, None), UnoCard(None, None, DRAWFOUR)}
             \cup {UnoCard(color, n, None) : color \in CardColor, n \in 0..9}
             \cup {UnoCard(color, None, act) : color \in CardColor,
                                                act \in CardAction} |->
        IF card.color = None
        THEN (IF card.action = DRAWFOUR THEN DRAWFOUR_COUNT ELSE WILDCARD_COUNT)
        ELSE IF card.number = 0 THEN ZERO_COUNT
        ELSE IF card.number # None THEN NONZERO_COUNT
        ELSE ACTION_CARD_COUNT]

\* The keys UnoDeck.__init__ assigns.
UnoDeck_keys ==
    {UnoCard(None, None, None), UnoCard(None, None, DRAWFOUR)}
    \cup {UnoCard(color, n, None) : color \in CardColor, n \in 0..9}
    \cup {UnoCard(color, None, act) : color \in CardColor,
                                       act \in CardAction \ {DRAWFOUR}}

\* UnoDeck(): the dict self.deck.
UnoDeck_init ==
    [card \in UnoDeck_keys |->
        IF card.color = None
        THEN (IF card.action = DRAWFOUR THEN DRAWFOUR_COUNT ELSE WILDCARD_COUNT)
        ELSE IF card.number = 0 THEN ZERO_COUNT
        ELSE IF card.number # None THEN NONZERO_COUNT
        ELSE ACTION_CARD_COUNT]

\* sum([self.deck[k] for k in self.deck.keys()]): the counts of the keys
\* present are positive, so the dict is a bag.
UnoDeck_len(deck) == BagCardinality(deck)

UnoDeck_count(deck, card) == IF card \in DOMAIN deck THEN deck[card] ELSE 0

\* del self.deck[card]: the dict without the key card (the bag without any
\* of its copies).
dict_del(deck, card) == deck (-) (card :> deck[card])

\* list(self.deck.keys()): del keeps the order of the keys that stay, and no
\* key is ever assigned again.
UnoDeck_ks(deck) ==
    SelectSeq(UnoDeck_key_list, LAMBDA key : key \in DOMAIN deck)

\* UnoDeck.remove without lines 118-119: an entry stays at count 0.
UnoDeck_remove_keep_entry(deck, card) ==
    IF card \notin DOMAIN deck
    THEN [raised |-> "KeyError", deck |-> deck]
    ELSE [raised |-> OK, deck |-> [deck EXCEPT ![card] = @ - 1]]

\* UnoDeck.remove returning quietly for a missing key.
UnoDeck_remove_missing_ok(deck, card) ==
    IF card \notin DOMAIN deck
    THEN [raised |-> OK, deck |-> deck]
    ELSE LET count == deck[card] - 1
         IN  [raised |-> OK,
              deck |-> IF count = 0 THEN deck (-) (card :> deck[card])
                       ELSE [deck EXCEPT ![card] = count]]

\* UnoDeck.draw without lines 106-107: an entry stays at count 0.
UnoDeck_draw_keep_entry(deck, choice) ==
    IF DOMAIN deck = {}
    THEN [card |-> NoCard, raised |-> OK, deck |-> deck]
    ELSE LET count == deck[choice] - 1
         IN  IF count < 0
             THEN [card |-> NoCard, raised |-> "AssertionError",
                   deck |-> [deck EXCEPT ![choice] = count]]
             ELSE [card |-> Some(choice), raised |-> OK,
                   deck |-> [deck EXCEPT ![choice] = count]]

\* UnoDeck.remove: self.deck[card] -= 1 raises KeyError for a missing key.
UnoDeck_remove(deck, card) ==
    IF card \notin DOMAIN deck
    THEN [raised |-> "KeyError", deck |-> deck]
    ELSE LET count == deck[card] - 1
         IN  [raised |-> OK,
              deck |-> IF count = 0 THEN dict_del(deck, card)
                       ELSE [deck EXCEPT ![card] = count]]

\* UnoDeck.draw, with choice the key random.choice(ks) returns (any key of a
\* deck that has keys).  The result is the card returned (None for no keys)
\* and the deck after the call.
UnoDeck_draw(deck, choice) ==
    IF DOMAIN deck = {}
    THEN [card |-> NoCard, raised |-> OK, deck |-> deck]
    ELSE LET count == deck[choice] - 1
         IN  IF count < 0
             THEN [card |-> NoCard, raised |-> "AssertionError",
                   deck |-> [deck EXCEPT ![choice] = count]]
             ELSE [card |-> Some(choice), raised |-> OK,
                   deck |-> IF count = 0 THEN dict_del(deck, choice)
                            ELSE [deck EXCEPT ![choice] = count]]

\* ------------------------------------------------------------- seen index
CardCountsIndex_init ==
    [total_counts |-> Counter_new, color_counts |-> Counter_new,
     number_counts |-> Counter_new, action_counts |-> Counter_new]

\* CardCountsIndex.count without the test of line 134: a card with no colour
\* is counted under the colour None.
CardCountsIndex_count_color_always(self, card) ==
    [total_counts |-> Counter_incr(self.total_counts, card),
     color_counts |-> Counter_incr(self.color_counts, card.color),
     number_counts |-> IF card.number # None
                       THEN Counter_incr(self.number_counts, card.number)
                       ELSE self.number_counts,
     action_counts |-> IF card.action # None
                       THEN Counter_incr(self.action_counts, card.action)
                       ELSE self.action_counts]

CardCountsIndex_count(self, card) ==
    [total_counts |-> Counter_incr(self.total_counts, card),
     color_counts |-> IF card.color # None
                      THEN Counter_incr(self.color_counts, card.color)
                      ELSE self.color_counts,
     number_counts |-> IF card.number # None
                       THEN Counter_incr(self.number_counts, card.number)
                       ELSE self.number_counts,
     action_counts |-> IF card.action # None
                       THEN Counter_incr(self.action_counts, card.action)
                       ELSE self.action_counts]

\* ----------------------------------------------------------------- tracker
\* __see_card counting before it removes: what the comment in __see_card
\* warns against.
see_card_count_first(self, card) ==
    LET counted == CardCountsIndex_count(self.seen_counter, card)
        r == UnoDeck_remove(self.unseen_cards, card)
    IN  [self EXCEPT !.seen_counter = counted,
                     !.unseen_cards = r.deck,
                     !.raised = r.raised]

\* GameStateTracker.__see_card
see_card(self, card) ==
    LET r == UnoDeck_remove(self.unseen_cards, card)
    IN  IF r.raised # OK
        THEN [self EXCEPT !.raised = r.raised]
        ELSE [self EXCEPT !.unseen_cards = r.deck,
                          !.seen_counter =
                              CardCountsIndex_count(self.seen_counter, card),
                          !.raised = OK]

RECURSIVE see_each(_, _, _)
\* for card in self.player_hand: self.__see_card(card), from the i-th card
see_each(self, cards, i) ==
    IF i > Len(cards) THEN self
    ELSE LET s == see_card(self, cards[i])
         IN  IF s.raised # OK THEN s ELSE see_each(s, cards, i + 1)

\* GameStateTracker(player_hand, other_players_card_counts); raised # OK when
\* the constructor raises and no tracker exists.
GameStateTracker_init(player_hand, other_players_card_counts) ==
    LET fresh == [player_hand |-> player_hand,
                  other_players_card_counts |-> other_players_card_counts,
                  unseen_cards |-> UnoDeck_init,
                  seen_counter |-> CardCountsIndex_init,
                  unfulfilled_requirements_monitor |->
                      [i \in 1..Len(other_players_card_counts) |-> NoCard],
                  raised |-> OK]
    IN  see_each(fresh, player_hand, 1)

\* self.ORIGINAL_CARD_COUNT = len(self.unseen_cards), of the fresh deck: the
\* sum of its counts.
ORIGINAL_CARD_COUNT == SumOver(UnoDeck_init, DOMAIN UnoDeck_init)

count_deck(self) ==
    UnoDeck_len(self.unseen_cards)
    - SumOver(self.other_players_card_counts,
              DOMAIN self.other_players_card_counts)

\* self.nCr: the table of CombinationCount(self.ORIGINAL_CARD_COUNT)
binomial_coefficients == CombinationCount(ORIGINAL_CARD_COUNT)

\* a / b of two ints
true_div(a, b) ==
    IF b = <<>> THEN [raised |-> "ZeroDivisionError", value |-> Frac(<<>>, <<>>)]
    ELSE [raised |-> OK, value |-> Frac(a, b)]

\* The failure of a query.
Raises(exception) == [raised |-> exception, value |-> FracOfInt(0)]

\* A local of card_requirement_probability that was never assigned.
Unbound == [raised |-> "UnboundLocalError", value |-> <<>>]

\* The colour half of card_requirement_probability (lines 186-203): the
\* local player_hand_universe and the colour probability.
color_part(self, card, next_player) ==
    LET unseen == UnoDeck_len(self.unseen_cards)
        hand == list_index(self.other_players_card_counts, next_player)
    IN  IF card.color = None
        THEN [raised |-> OK, universe |-> Unbound,
              prob |-> FracSub(FracOfInt(1), FracOfInt(0))]
        ELSE IF hand.raised # OK
        THEN [raised |-> hand.raised, universe |-> Unbound, prob |-> FracOfInt(0)]
        ELSE
        LET remaining_color_unseen ==
                PER_COLOR_COUNT - Counter_get(self.seen_counter.color_counts,
                                              card.color)
            player_hand_universe == nCr(binomial_coefficients, unseen, hand.value)
            player_hands_without_color ==
                nCr(binomial_coefficients, unseen - remaining_color_unseen,
                    hand.value)
            frac == true_div(player_hands_without_color.value,
                             player_hand_universe.value)
        IN  IF player_hand_universe.raised # OK
            THEN [raised |-> player_hand_universe.raised, universe |-> Unbound,
                  prob |-> FracOfInt(0)]
            ELSE IF player_hands_without_color.raised # OK
            THEN [raised |-> player_hands_without_color.raised,
                  universe |-> player_hand_universe, prob |-> FracOfInt(0)]
            ELSE IF frac.raised # OK
            THEN [raised |-> frac.raised, universe |-> player_hand_universe,
                  prob |-> FracOfInt(0)]
            ELSE IF ~FracLeq(frac.value, FracOfInt(1))
            THEN [raised |-> "AssertionError",
                  universe |-> player_hand_universe, prob |-> FracOfInt(0)]
            ELSE [raised |-> OK, universe |-> player_hand_universe,
                  prob |-> FracSub(FracOfInt(1), frac.value)]

\* The number half (lines 205-220), with the local player_hand_universe as
\* the colour half left it.
number_part(self, card, next_player, player_hand_universe) ==
    LET unseen == UnoDeck_len(self.unseen_cards)
        hand == list_index(self.other_players_card_counts, next_player)
    IN  IF card.number = None
        THEN [raised |-> OK, prob |-> FracSub(FracOfInt(1), FracOfInt(0))]
        ELSE IF hand.raised # OK
        THEN [raised |-> hand.raised, prob |-> FracOfInt(0)]
        ELSE
        LET remaining_number_unseen ==
                (IF card.number # 0 THEN PER_NONZERO_COUNT ELSE PER_ZERO_COUNT)
                - Counter_get(self.seen_counter.number_counts, card.number)
            player_hands_without_number ==
                nCr(binomial_coefficients, unseen - remaining_number_unseen,
                    hand.value)
            frac == true_div(player_hands_without_number.value,
                             player_hand_universe.value)
        IN  IF player_hands_without_number.raised # OK
            THEN [raised |-> player_hands_without_number.raised,
                  prob |-> FracOfInt(0)]
            ELSE IF player_hand_universe.raised # OK
            THEN [raised |-> player_hand_universe.raised, prob |-> FracOfInt(0)]
            ELSE IF frac.raised # OK
            THEN [raised |-> frac.raised, prob |-> FracOfInt(0)]
            ELSE IF ~FracLeq(frac.value, FracOfInt(1))
            THEN [raised |-> "AssertionError", prob |-> FracOfInt(0)]
            ELSE [raised |-> OK, prob |-> FracSub(FracOfInt(1), frac.value)]

\* GameStateTracker.card_requirement_probability: what it raises, or OK and
\* the value it returns.
card_requirement_probability(self, card, next_player) ==
    IF Counter_total(self.seen_counter.total_counts)
           + UnoDeck_len(self.unseen_cards) # ORIGINAL_CARD_COUNT
    THEN Raises("AssertionError")
    ELSE LET color == color_part(self, card, next_player)
             number == number_part(self, card, next_player, color.universe)
         IN  IF color.raised # OK THEN Raises(color.raised)
             ELSE IF number.raised # OK THEN Raises(number.raised)
             ELSE [raised |-> OK, value |-> FracAdd(color.prob, number.prob)]

ev_initial_play(self, card) == see_card(self, card)

\* player is a Python index: 0 is the first opponent.
ev_other_player_played(self, player, card) ==
    IF card # NoCard
    THEN LET s == see_card(self, card[1])
         IN  IF s.raised # OK THEN s
             ELSE LET t == [s EXCEPT
                            !.other_players_card_counts[player + 1] = @ - 1]
                  IN  IF t.other_players_card_counts[player + 1] >= 0
                      THEN t
                      ELSE [t EXCEPT !.raised = "AssertionError"]
    ELSE [self EXCEPT !.unfulfilled_requirements_monitor[player + 1] = card,
                      !.raised = OK]

\* ev_other_player_drew accepting num_cards = 0.
ev_other_player_drew_off_by_one(self, player, num_cards) ==
    IF num_cards < 0
    THEN [self EXCEPT !.raised = "ValueError"]
    ELSE [self EXCEPT !.other_players_card_counts[player + 1] = @ + num_cards,
                      !.raised = OK]

ev_other_player_drew(self, player, num_cards) ==
    IF num_cards <= 0
    THEN [self EXCEPT !.raised = "ValueError"]
    ELSE [self EXCEPT !.other_players_card_counts[player + 1] = @ + num_cards,
                      !.raised = OK]

RECURSIVE ev_player_drew_from(_, _, _)
\* the loop of ev_player_drew from the i-th card
ev_player_drew_from(self, cards, i) ==
    IF i > Len(cards) THEN [self EXCEPT !.raised = OK]
    ELSE LET s == see_card(self, cards[i])
         IN  IF s.raised # OK THEN s
             ELSE ev_player_drew_from(
                      [s EXCEPT !.player_hand = Append(@, cards[i])],
                      cards, i + 1)

\* ev_player_drew seeing the cards without appending them to the hand.
ev_player_drew_seen_only(self, cards) ==
    see_each([self EXCEPT !.raised = OK], cards, 1)

ev_player_drew(self, cards) == ev_player_drew_from(self, cards, 1)

ev_player_played(self, card) == see_card(self, card)

\* ------------------------------------------------------------------- state
VARIABLES
    player_hand,                        \* GameStateTracker.player_hand
    other_players_card_counts,          \* .other_players_card_counts
    unseen_cards,                       \* .unseen_cards.deck
    seen_counter,                       \* .seen_counter
    unfulfilled_requirements_monitor,   \* .unfulfilled_requirements_monitor
    raised,                             \* what the last call raised, or OK
    last_call,                          \* the last call: its name and arguments
    calls,                              \* event calls made so far
    deck,                               \* the draw pile of the game (test: self.deck)
    other_hands,                        \* the cards the opponents really hold
    returned,                           \* what the last call returned
    combination_count                   \* a CombinationCount: binomial_coefficients

tracker_vars == <<player_hand, other_players_card_counts, unseen_cards,
                  seen_counter, unfulfilled_requirements_monitor>>
game_vars == <<deck, other_hands>>
vars == <<player_hand, other_players_card_counts, unseen_cards, seen_counter,
          unfulfilled_requirements_monitor, raised, last_call, calls, deck,
          other_hands, returned, combination_count>>

\* The tracker object of the current state.
Self ==
    [player_hand |-> player_hand,
     other_players_card_counts |-> other_players_card_counts,
     unseen_cards |-> unseen_cards,
     seen_counter |-> seen_counter,
     unfulfilled_requirements_monitor |-> unfulfilled_requirements_monitor,
     raised |-> raised]

\* The tracker object of the next state is self.
Becomes(self) ==
    /\ player_hand' = self.player_hand
    /\ other_players_card_counts' = self.other_players_card_counts
    /\ unseen_cards' = self.unseen_cards
    /\ seen_counter' = self.seen_counter
    /\ unfulfilled_requirements_monitor' = self.unfulfilled_requirements_monitor
    /\ raised' = self.raised

\* A call: the method's name and its arguments (None and <<>> for the ones
\* the method does not have).
Call(op, player, cards, n) ==
    [op |-> op, player |-> player, cards |-> cards, n |-> n]

\* The cards the events of Spec use: the plain wildcard (4 copies, no
\* colour), RED 0 (1 copy), RED 1 (2 copies) and RED SKIP (an action card, 2
\* copies).
EventCards ==
    {UnoCard(None, None, None), UnoCard(RED, 0, None), UnoCard(RED, 1, None),
     UnoCard(RED, None, SKIP)}

\* The hands a tracker of Spec is constructed from.
InitHands == {<<>>} \cup {<<card>> : card \in EventCards}

\* The lists handed to ev_player_drew: none, one card, and two cards of a
\* type with one copy or with two.
DrawLists ==
    {<<>>} \cup {<<card>> : card \in EventCards}
    \cup {<<c, d>> : c, d \in {UnoCard(RED, 0, None), UnoCard(RED, 1, None)}}

\* The opponents, as Python indexes.
Opponents == {0, 1}
NumOpponents == Cardinality(Opponents)

\* Half of the deck: two opponents holding this many leave no draw pile.
HalfDeck == ORIGINAL_CARD_COUNT \div 2

\* One card more than the deck has cards that are not of one colour: an
\* opponent holding this many holds a card of every colour.
MostOfDeck == ORIGINAL_CARD_COUNT - PER_COLOR_COUNT + 1

\* The hand sizes a tracker of Spec is constructed with.
InitHandSizes == {0, HalfDeck, MostOfDeck}

\* ------------------------------------------------ Spec: the tracker's events
\* A tracker constructed from a hand and a hand-size vector that leave a
\* draw pile of at least no cards.
Init ==
    /\ \E hand \in InitHands,
          counts \in [1..NumOpponents -> InitHandSizes] :
          LET self == GameStateTracker_init(hand, counts)
          IN  /\ self.raised = OK
              /\ count_deck(self) >= 0
              /\ player_hand = self.player_hand
              /\ other_players_card_counts = self.other_players_card_counts
              /\ unseen_cards = self.unseen_cards
              /\ seen_counter = self.seen_counter
              /\ unfulfilled_requirements_monitor =
                     self.unfulfilled_requirements_monitor
              /\ raised = OK
    /\ last_call = Call("__init__", None, <<>>, None)
    /\ calls = 0
    /\ deck = UnoDeck_init
    /\ other_hands = <<>>
    /\ returned = None
    /\ combination_count = <<>>

\* One more call, of this event method with these arguments; the event
\* methods return None.
Called(op, player, cards, n) ==
    /\ calls < MaxCalls
    /\ calls' = calls + 1
    /\ last_call' = Call(op, player, cards, n)
    /\ returned' = None
    /\ UNCHANGED combination_count

InitialPlay ==
    \E card \in EventCards :
        /\ Called("ev_initial_play", None, <<card>>, None)
        /\ Becomes(ev_initial_play(Self, card))
        /\ UNCHANGED game_vars

PlayerDrew ==
    \E cards \in DrawLists :
        /\ Called("ev_player_drew", None, cards, None)
        /\ Becomes(ev_player_drew(Self, cards))
        /\ UNCHANGED game_vars

PlayerPlayed ==
    \E card \in EventCards :
        /\ Called("ev_player_played", None, <<card>>, None)
        /\ Becomes(ev_player_played(Self, card))
        /\ UNCHANGED game_vars

OtherPlayerPlayed ==
    \E player \in Opponents, card \in {NoCard} \cup {Some(c) : c \in EventCards} :
        /\ Called("ev_other_player_played", player, card, None)
        /\ Becomes(ev_other_player_played(Self, player, card))
        /\ UNCHANGED game_vars

OtherPlayerDrew ==
    \E player \in Opponents, num_cards \in -1..MaxNumCards :
        /\ Called("ev_other_player_drew", player, <<>>, num_cards)
        /\ Becomes(ev_other_player_drew(Self, player, num_cards))
        /\ UNCHANGED game_vars

Next ==
    \/ InitialPlay
    \/ PlayerDrew
    \/ PlayerPlayed
    \/ OtherPlayerPlayed
    \/ OtherPlayerDrew

Spec == Init /\ [][Next]_vars

\* --------------------------------------- SpecRound: the harness of the tests
\* The cards dealt to the observer (test_uno.py line 115)
DEAL_SIZE == 7
\* and the opponents of GameStateTrackerTest.setUp, each with DEAL_SIZE cards.
SetUpOpponents == <<DEAL_SIZE, DEAL_SIZE, DEAL_SIZE>>

\* The cards the deals of SpecRound use, in the order a hand lists them: the
\* plain wildcard, RED 0, RED 1, RED SKIP, YELLOW 1 and BLUE 0.
RoundCards ==
    <<UnoCard(None, None, None), UnoCard(RED, 0, None), UnoCard(RED, 1, None),
      UnoCard(RED, None, SKIP), UnoCard(YELLOW, 1, None),
      UnoCard(BLUE, 0, None)>>

RECURSIVE Copies(_, _)
Copies(card, n) == IF n = 0 THEN <<>> ELSE <<card>> \o Copies(card, n - 1)

RECURSIVE HandOf(_, _)
\* The hand with copies[i] copies of RoundCards[i], from the i-th type on.
HandOf(copies, i) ==
    IF i > Len(RoundCards) THEN <<>>
    ELSE Copies(RoundCards[i], copies[i]) \o HandOf(copies, i + 1)

\* GameStateTrackerTest.setUp up to the construction of the tracker: a hand
\* of DEAL_SIZE cards drawn from a deck.  (A hand with more copies of a card
\* than the deck holds cannot be drawn, and the constructor raises on it.)
\* The cards of the opponents are drawn and forgotten; deck is not followed.
InitRound ==
    /\ \E copies \in [1..Len(RoundCards) -> 0..WILDCARD_COUNT] :
          LET hand == HandOf(copies, 1)
              self == GameStateTracker_init(hand, SetUpOpponents)
          IN  /\ Len(hand) = DEAL_SIZE
              /\ self.raised = OK
              /\ player_hand = self.player_hand
              /\ other_players_card_counts = self.other_players_card_counts
              /\ unseen_cards = self.unseen_cards
              /\ seen_counter = self.seen_counter
              /\ unfulfilled_requirements_monitor =
                     self.unfulfilled_requirements_monitor
              /\ raised = OK
    /\ last_call = Call("__init__", None, <<>>, None)
    /\ calls = 0
    /\ deck = UnoDeck_init
    /\ other_hands = <<>>
    /\ returned = None
    /\ combination_count = <<>>

\* setUp, lines 121-126: the discard drawn from the deck is a card the
\* tracker has not seen.
SetUpInitialPlay ==
    \E i \in 1..Len(RoundCards) :
        /\ calls = 0
        /\ RoundCards[i] \in DOMAIN unseen_cards
        /\ calls' = 1
        /\ last_call' = Call("ev_initial_play", None, <<RoundCards[i]>>, None)
        /\ Becomes(ev_initial_play(Self, RoundCards[i]))
        /\ returned' = None
        /\ UNCHANGED <<game_vars, combination_count>>

\* One turn of the loop of test_card_requirement_probability_exhausted_color,
\* lines 152-162: a card is drawn from dummy_deck and, having the candidate's
\* colour or number, played, a KeyError ignored.  random.choice decides only
\* the order of the draws, and the tracker reached does not depend on it.
play_drawn(loop, candidate_play) ==
    LET drawn == UnoDeck_draw(loop.dummy_deck,
                              CHOOSE k \in DOMAIN loop.dummy_deck : TRUE)
        card == drawn.card[1]
        s == ev_player_played(loop.self, card)
    IN  [dummy_deck |-> drawn.deck,
         self |-> IF (card.color = candidate_play.color
                      \/ card.number = candidate_play.number)
                     /\ s.raised # "KeyError"
                  THEN s ELSE loop.self]

RECURSIVE play_turns(_, _, _)
\* turns turns of that loop, the first half of them and then the rest.
play_turns(loop, candidate_play, turns) ==
    IF turns = 0 THEN loop
    ELSE IF turns = 1 THEN play_drawn(loop, candidate_play)
    ELSE LET half == play_turns(loop, candidate_play, turns \div 2)
         IN  IF DOMAIN half.dummy_deck = {} THEN half
             ELSE play_turns(half, candidate_play, turns - (turns \div 2))

\* The loop, lines 152-162, to its end: it draws until the deck has no card,
\* one turn for each card of dummy_deck.
play_all(self, dummy_deck, candidate_play) ==
    LET done == play_turns([dummy_deck |-> dummy_deck, self |-> self],
                           candidate_play, UnoDeck_len(dummy_deck))
    IN  [done.self EXCEPT !.raised = OK]

ExhaustedColor ==
    \E i \in 1..Len(player_hand) :
        /\ calls = 1
        /\ player_hand[i].color # None
        /\ calls' = 2
        /\ last_call' = Call("exhausted_color", None, <<player_hand[i]>>, None)
        /\ Becomes(play_all(Self, UnoDeck_init, player_hand[i]))
        /\ returned' = None
        /\ UNCHANGED <<game_vars, combination_count>>

NextRound ==
    \/ SetUpInitialPlay
    \/ ExhaustedColor

SpecRound == InitRound /\ [][NextRound]_vars

\* ------------------------------- SpecGame: a game and its tracker, together
\* The cards the game of SpecGame deals and draws: the plain wildcard, RED 0
\* (1 copy) and RED 1 (2 copies).
GameCards ==
    {UnoCard(None, None, None), UnoCard(RED, 0, None), UnoCard(RED, 1, None)}

RECURSIVE draw_each(_, _, _)
\* The deck after cards were drawn from it, from the i-th on: draw() returned
\* cards[i], which random.choice can choose only among the keys.
draw_each(a_deck, cards, i) ==
    IF i > Len(cards) THEN [drawn |-> TRUE, deck |-> a_deck]
    ELSE IF cards[i] \notin DOMAIN a_deck THEN [drawn |-> FALSE, deck |-> a_deck]
    ELSE draw_each(UnoDeck_draw(a_deck, cards[i]).deck, cards, i + 1)

RECURSIVE BagOfSeq(_, _)
BagOfSeq(cards, i) ==
    IF i > Len(cards) THEN EmptyBag
    ELSE SetToBag({cards[i]}) (+) BagOfSeq(cards, i + 1)

\* The deal of setUp with hands of two cards and of one: the observer's two
\* cards, one card for each opponent, the tracker built from the observer's
\* hand and the opponents' hand sizes.
InitGame ==
    /\ \E hand \in {<<c, d>> : c, d \in GameCards},
          others \in [1..NumOpponents -> GameCards] :
          LET dealt == draw_each(UnoDeck_init, hand \o others, 1)
              self == GameStateTracker_init(hand, [i \in 1..NumOpponents |-> 1])
          IN  /\ dealt.drawn
              /\ deck = dealt.deck
              /\ other_hands = [i \in 1..NumOpponents |-> SetToBag({others[i]})]
              /\ player_hand = self.player_hand
              /\ other_players_card_counts = self.other_players_card_counts
              /\ unseen_cards = self.unseen_cards
              /\ seen_counter = self.seen_counter
              /\ unfulfilled_requirements_monitor =
                     self.unfulfilled_requirements_monitor
              /\ raised = OK
    /\ last_call = Call("__init__", None, <<>>, None)
    /\ calls = 0
    /\ returned = None
    /\ combination_count = <<>>

\* setUp, lines 121-126: the first discard is drawn from the deck.
GameInitialPlay ==
    \E card \in GameCards \cap DOMAIN deck :
        /\ calls = 0
        /\ Called("ev_initial_play", None, <<card>>, None)
        /\ deck' = UnoDeck_draw(deck, card).deck
        /\ Becomes(ev_initial_play(Self, card))
        /\ UNCHANGED other_hands

\* test_player_based_deck_changes, lines 134-136: the observer draws.
GamePlayerDrew ==
    \E card \in GameCards \cap DOMAIN deck :
        /\ calls > 0
        /\ Called("ev_player_drew", None, <<card>>, None)
        /\ deck' = UnoDeck_draw(deck, card).deck
        /\ Becomes(ev_player_drew(Self, <<card>>))
        /\ UNCHANGED other_hands

\* An opponent draws num_cards cards from the deck into their hand.
GameOtherPlayerDrew ==
    \E player \in Opponents, num_cards \in 1..MaxNumCards :
        \E cards \in [1..num_cards -> GameCards] :
            LET taken == draw_each(deck, cards, 1)
            IN  /\ calls > 0
                /\ taken.drawn
                /\ Called("ev_other_player_drew", player, <<>>, num_cards)
                /\ deck' = taken.deck
                /\ other_hands' = [other_hands EXCEPT
                                   ![player + 1] = @ (+) BagOfSeq(cards, 1)]
                /\ Becomes(ev_other_player_drew(Self, player, num_cards))

\* An opponent plays a card of their hand.
GameOtherPlayerPlayed ==
    \E player \in Opponents :
        \E card \in DOMAIN other_hands[player + 1] :
            /\ calls > 0
            /\ Called("ev_other_player_played", player, <<card>>, None)
            /\ other_hands' = [other_hands EXCEPT
                               ![player + 1] = @ (-) SetToBag({card})]
            /\ Becomes(ev_other_player_played(Self, player, Some(card)))
            /\ UNCHANGED deck

\* The observer plays the i-th card of their hand: the caller takes it out
\* of the hand (the list it shares with the tracker) and tells the tracker.
GamePlayerPlayed ==
    \E i \in 1..Len(player_hand) :
        LET self == ev_player_played(Self, player_hand[i])
        IN  /\ calls > 0
            /\ Called("ev_player_played", None, <<player_hand[i]>>, None)
            /\ Becomes([self EXCEPT !.player_hand =
                           SubSeq(@, 1, i - 1) \o SubSeq(@, i + 1, Len(@))])
            /\ UNCHANGED game_vars

NextGame ==
    \/ GameInitialPlay
    \/ GamePlayerDrew
    \/ GameOtherPlayerDrew
    \/ GameOtherPlayerPlayed
    \/ GamePlayerPlayed

SpecGame == InitGame /\ [][NextGame]_vars

\* --------------------------------------------- SpecDeck: an UnoDeck by itself
\* The indexes of ks that random.choice picks: the first key and the last.
DrawChoices == {0, -1}

\* The cards remove is called with: BLUE 1 (test_remove_and_count), which
\* the draws reach too, and RED with no number and no action, a card no deck
\* has.
RemoveCards == {UnoCard(BLUE, 1, None), UnoCard(RED, None, None)}

\* No tracker is followed: its variables keep the values of a tracker with
\* no hand and no opponents.
NoTracker ==
    LET self == GameStateTracker_init(<<>>, <<>>)
    IN  /\ player_hand = self.player_hand
        /\ other_players_card_counts = self.other_players_card_counts
        /\ unseen_cards = self.unseen_cards
        /\ seen_counter = self.seen_counter
        /\ unfulfilled_requirements_monitor =
               self.unfulfilled_requirements_monitor
        /\ other_hands = <<>>

\* UnoDeckTests.setUp: self.deck = UnoDeck().  calls counts the draws that
\* returned a card.
InitDeck ==
    /\ NoTracker
    /\ combination_count = <<>>
    /\ deck = UnoDeck_init
    /\ raised = OK
    /\ returned = None
    /\ last_call = Call("UnoDeck", None, <<>>, None)
    /\ calls = 0

\* self.deck.draw(), random.choice picking ks[index].
Draw ==
    \E index \in DrawChoices :
        LET ks == UnoDeck_ks(deck)
            drawn == IF ks = <<>> THEN UnoDeck_draw(deck, None)
                     ELSE UnoDeck_draw(deck, list_index(ks, index).value)
        IN  /\ deck' = drawn.deck
            /\ raised' = drawn.raised
            /\ returned' = drawn.card
            /\ last_call' = Call("draw", None, <<>>, None)
            /\ calls' = IF drawn.card # NoCard THEN calls + 1 ELSE calls
            /\ UNCHANGED <<tracker_vars, other_hands, combination_count>>

\* self.deck.remove(card)
Remove ==
    \E card \in RemoveCards :
        LET removed == UnoDeck_remove(deck, card)
        IN  /\ deck' = removed.deck
            /\ raised' = removed.raised
            /\ returned' = None
            /\ last_call' = Call("remove", None, <<card>>, None)
            /\ UNCHANGED <<calls, tracker_vars, other_hands, combination_count>>

NextDeck ==
    \/ Draw
    \/ Remove

SpecDeck == InitDeck /\ [][NextDeck]_vars

\* ------------------------------------ SpecTable: a CombinationCount by itself
\* CombinationCount(max_items), for max_items up to MaxItems.
InitTable ==
    /\ NoTracker
    /\ deck = <<>>
    /\ \E max_items \in 0..MaxItems :
          /\ combination_count = CombinationCount(max_items)
          /\ last_call = Call("CombinationCount", None, <<max_items>>, None)
    /\ raised = OK
    /\ returned = None
    /\ calls = 0

\* nCr(n, c), the arguments from one below the table to one beyond it; the
\* call records them in the place of the list.
Lookup ==
    \E n, c \in -1..Len(combination_count) :
        LET looked_up == nCr(combination_count, n, c)
        IN  /\ raised' = looked_up.raised
            /\ returned' = IF looked_up.raised = OK THEN looked_up.value
                           ELSE None
            /\ last_call' = Call("nCr", None, <<n, c>>, None)
            /\ UNCHANGED <<calls, combination_count, deck, tracker_vars,
                           other_hands>>

NextTable == Lookup

SpecTable == InitTable /\ [][NextTable]_vars

\* -------------------------------------------------- SpecCard: pairs of cards
\* The cards of the attribute domain: a colour or none, a number of 0..9 or
\* none, an action or none.
AllCards ==
    {UnoCard(color, number, action) :
         color \in CardColor \cup {None},
         number \in (0..9) \cup {None},
         action \in CardAction \cup {None}}

\* Two cards are made: self and card, recorded in the place of the list.
InitCard ==
    /\ NoTracker
    /\ deck = <<>>
    /\ combination_count = <<>>
    /\ raised = OK
    /\ returned = None
    /\ \E self \in AllCards, card \in AllCards :
          last_call = Call("UnoCard", None, <<self, card>>, None)
    /\ calls = 0

\* self.matches(card)
Matches ==
    /\ last_call.op = "UnoCard"
    /\ returned' = matches(last_call.cards[1], last_call.cards[2])
    /\ raised' = OK
    /\ last_call' = [last_call EXCEPT !.op = "matches"]
    /\ UNCHANGED <<calls, combination_count, deck, tracker_vars, other_hands>>

NextCard == Matches

SpecCard == InitCard /\ [][NextCard]_vars

\* ------------------------------------- SpecIndex: a CardCountsIndex by itself
\* The cards counted: YELLOW 0, RED 0 and RED SKIP (test_count), the plain
\* wildcard, which has no attribute, and the draw-four wildcard, which has
\* only an action.
CountCards ==
    {UnoCard(YELLOW, 0, None), UnoCard(RED, 0, None), UnoCard(RED, None, SKIP),
     UnoCard(None, None, None), UnoCard(None, None, DRAWFOUR)}

\* CardCountsIndexTest.setUp: self.counter = CardCountsIndex(), kept in
\* seen_counter; no tracker and no deck.
InitIndex ==
    /\ seen_counter = CardCountsIndex_init
    /\ player_hand = <<>>
    /\ other_players_card_counts = <<>>
    /\ unseen_cards = <<>>
    /\ unfulfilled_requirements_monitor = <<>>
    /\ other_hands = <<>>
    /\ deck = <<>>
    /\ combination_count = <<>>
    /\ raised = OK
    /\ returned = None
    /\ last_call = Call("CardCountsIndex", None, <<>>, None)
    /\ calls = 0

\* self.counter.count(card)
Count ==
    \E card \in CountCards :
        /\ calls < MaxCounts
        /\ calls' = calls + 1
        /\ seen_counter' = CardCountsIndex_count(seen_counter, card)
        /\ raised' = OK
        /\ returned' = None
        /\ last_call' = Call("count", None, <<card>>, None)
        /\ UNCHANGED <<player_hand, other_players_card_counts, unseen_cards,
                       unfulfilled_requirements_monitor, other_hands, deck,
                       combination_count>>

NextIndex == Count

SpecIndex == InitIndex /\ [][NextIndex]_vars

\* ------------------------------------------------------------------ claims
seen_total == Counter_total(seen_counter.total_counts)

\* C1: after construction and after every event call, successful or not, the
\* seen total plus the size of the unseen pool is ORIGINAL_CARD_COUNT (108).
C1_SeenPlusUnseenIsOriginal ==
    /\ ORIGINAL_CARD_COUNT = 108
    /\ seen_total + UnoDeck_len(unseen_cards) = ORIGINAL_CARD_COUNT

\* C1 witness: a failed call after cards were observed.
C1_Witness ==
    /\ raised = "KeyError"
    /\ seen_total >= 2

\* C2: the draw pile the tracker computes, count_deck(), is never negative
\* after a successful event on a tracker constructed with count_deck() >= 0.
C2_CountDeckNonNegative == raised = OK => count_deck(Self) >= 0

\* C3: fed the events of a game, count_deck() is the number of cards in the
\* game's draw pile after every event.
C3_CountDeckIsDrawPile == count_deck(Self) = UnoDeck_len(deck)

\* C4: an event on a card that is already seen fails: the observer playing a
\* card of their hand, which was seen when it was dealt or drawn, raises.
C4_SeenCardIsNotSeenAgain == last_call.op = "ev_player_played" => raised # OK

\* The calls that observe the one card: ev_initial_play, ev_player_played,
\* ev_player_drew of the list of that card, ev_other_player_played.
ObservationsOf(card) ==
    {Call("ev_initial_play", None, <<card>>, None),
     Call("ev_player_played", None, <<card>>, None),
     Call("ev_player_drew", None, <<card>>, None)}
    \cup {Call("ev_other_player_played", player, <<card>>, None) :
              player \in Opponents}

\* C5: observing a card with no copy left in the unseen pool raises (a
\* KeyError) and leaves the unseen pool, the four counters of the seen index,
\* the hand and the hand sizes as they were.
C5_FailedObservationIsAtomic ==
    [][\A card \in EventCards :
          (UnoDeck_count(unseen_cards, card) = 0
           /\ last_call' \in ObservationsOf(card))
          => /\ raised' = "KeyError"
             /\ unseen_cards' = unseen_cards
             /\ seen_counter' = seen_counter
             /\ player_hand' = player_hand
             /\ other_players_card_counts' = other_players_card_counts]_vars

\* C5 witness: an opponent's play of a card with no copy left has failed
\* after a card was seen.
C5_Witness ==
    /\ last_call.op = "ev_other_player_played"
    /\ raised = "KeyError"
    /\ seen_total >= 1
    /\ UnoDeck_count(unseen_cards, last_call.cards[1]) = 0

\* C6: every opponent's hand size is a non-negative integer in every state,
\* the states after failed calls included.
C6_HandSizesNonNegative ==
    \A i \in 1..Len(other_players_card_counts) :
        other_players_card_counts[i] >= 0

\* C7: ev_other_player_drew(player, n) with n > 0 adds n to that opponent's
\* hand size and changes nothing else; with n <= 0 it raises ValueError and
\* changes nothing.
C7_OtherPlayerDrewFrame ==
    [][\A player \in Opponents, n \in -1..MaxNumCards :
          last_call' = Call("ev_other_player_drew", player, <<>>, n)
          => /\ unseen_cards' = unseen_cards
             /\ seen_counter' = seen_counter
             /\ player_hand' = player_hand
             /\ unfulfilled_requirements_monitor' =
                    unfulfilled_requirements_monitor
             /\ Len(other_players_card_counts') = Len(other_players_card_counts)
             /\ \A other \in Opponents \ {player} :
                    other_players_card_counts'[other + 1] =
                        other_players_card_counts[other + 1]
             /\ IF n > 0
                THEN /\ raised' = OK
                     /\ other_players_card_counts'[player + 1] =
                            other_players_card_counts[player + 1] + n
                ELSE /\ raised' = "ValueError"
                     /\ other_players_card_counts'[player + 1] =
                            other_players_card_counts[player + 1]]_vars

\* C7 witness: a draw of two cards by the second opponent has succeeded.
C7_Witness ==
    /\ last_call = Call("ev_other_player_drew", 1, <<>>, 2)
    /\ raised = OK
    /\ other_players_card_counts[2] >= 2

\* No unseen card has the colour of the candidate or its number.
NoUnseenShares(candidate) ==
    \A card \in DOMAIN unseen_cards :
        /\ ~attr_cmp(card.color, candidate.color)
        /\ ~attr_cmp(card.number, candidate.number)

\* The cards of RoundCards that have a colour.
ColouredRoundCards ==
    {RoundCards[i] : i \in {j \in 1..Len(RoundCards) : RoundCards[j].color # None}}

\* The opponents of the tracker, as Python indexes.
NextPlayers == 0..(Len(other_players_card_counts) - 1)

\* C8: for a candidate with a colour, when no unseen card shares its colour
\* or its number, card_requirement_probability returns exactly 0 for every
\* opponent.
C8_ExhaustedGivesZero ==
    \A candidate \in ColouredRoundCards, next_player \in NextPlayers :
        NoUnseenShares(candidate)
        => LET p == card_requirement_probability(Self, candidate, next_player)
           IN  p.raised = OK /\ FracEq(p.value, FracOfInt(0))

\* C9: after setUp (a hand of 7, opponents of 7, 7 and 7, the first discard
\* played), card_requirement_probability(card, 0) is in (0, 1] for every card
\* of the hand.
C9_FirstTurnInUnitInterval ==
    (calls = 1 /\ last_call.op = "ev_initial_play")
    => \A i \in 1..Len(player_hand) :
           LET p == card_requirement_probability(Self, player_hand[i], 0)
           IN  /\ p.raised = OK
               /\ FracLess(FracOfInt(0), p.value)
               /\ FracLeq(p.value, FracOfInt(1))

\* 1 - nCr(N - remainingColor, k) / nCr(N, k), with N the size of the unseen
\* pool and k the hand size of the opponent.
ColourTerm(card, next_player) ==
    LET N == UnoDeck_len(unseen_cards)
        k == other_players_card_counts[next_player + 1]
        remainingColor ==
            PER_COLOR_COUNT - Counter_get(seen_counter.color_counts, card.color)
    IN  FracSub(FracOfInt(1),
                Frac(nCr(binomial_coefficients, N - remainingColor, k).value,
                     nCr(binomial_coefficients, N, k).value))

\* C10: the term of an absent attribute contributes 0: for a card with a
\* colour and no number the result is the colour term, and for a card with
\* neither it is 0.
C10_AbsentTermsContributeZero ==
    \A card \in {UnoCard(RED, None, SKIP), UnoCard(RED, None, None),
                 UnoCard(None, None, None), UnoCard(None, None, DRAWFOUR)},
       next_player \in NextPlayers :
        LET p == card_requirement_probability(Self, card, next_player)
        IN  /\ p.raised = OK
            /\ IF card.color # None
               THEN FracEq(p.value, ColourTerm(card, next_player))
               ELSE FracEq(p.value, FracOfInt(0))

\* list.count: the occurrences of card in cards.
Occurrences(cards, card) ==
    Cardinality({i \in 1..Len(cards) : cards[i] = card})

\* Every card of cards is there to be drawn: the unseen pool has as many
\* copies of each as cards has.
Available(cards) ==
    \A i \in 1..Len(cards) :
        Occurrences(cards, cards[i]) <= UnoDeck_count(unseen_cards, cards[i])

\* C11: ev_player_drew(cards) with every card available sees each card (the
\* unseen pool loses Len(cards) cards, as many of each type as were drawn,
\* and the seen total gains Len(cards)) and appends the cards to the hand in
\* order; the opponents' hand sizes stay.
C11_PlayerDrewAppends ==
    [][\A cards \in DrawLists :
          (last_call' = Call("ev_player_drew", None, cards, None)
           /\ Available(cards))
          => /\ raised' = OK
             /\ UnoDeck_len(unseen_cards') =
                    UnoDeck_len(unseen_cards) - Len(cards)
             /\ \A card \in UnoDeck_keys :
                    UnoDeck_count(unseen_cards', card) =
                        UnoDeck_count(unseen_cards, card)
                        - Occurrences(cards, card)
             /\ Counter_total(seen_counter'.total_counts) =
                    Counter_total(seen_counter.total_counts) + Len(cards)
             /\ player_hand' = player_hand \o cards
             /\ \A card \in UnoDeck_keys :
                    Occurrences(player_hand', card) =
                        Occurrences(player_hand, card)
                        + Occurrences(cards, card)
             /\ other_players_card_counts' = other_players_card_counts]_vars

\* C11 witness: the same card was drawn twice in one call, which succeeded,
\* into a hand that had a card.
C11_Witness ==
    /\ last_call.op = "ev_player_drew"
    /\ Len(last_call.cards) = 2
    /\ last_call.cards[1] = last_call.cards[2]
    /\ raised = OK
    /\ Len(player_hand) >= 3

\* The cards of a deck or of a Counter of cards that satisfy a condition,
\* counted with their copies.
CountWhere(a_deck, Condition(_)) ==
    UnoDeck_len(a_deck (-) [card \in {k \in DOMAIN a_deck : ~Condition(k)} |->
                               a_deck[card]])

\* C12: a fresh UnoDeck has 108 cards: 4 plain wildcards, 4 draw-four
\* wildcards and, for each colour, one 0, two of each of 1..9 and two of each
\* of SKIP, DRAWTWO and REVERSE, and no other card; that is 25 cards for each
\* colour, 4 cards numbered 0 and 8 of each number 1..9.
C12_FreshDeckComposition ==
    last_call.op = "UnoDeck"
    => /\ UnoDeck_len(deck) = 108
       /\ UnoDeck_count(deck, UnoCard(None, None, None)) = 4
       /\ UnoDeck_count(deck, UnoCard(None, None, DRAWFOUR)) = 4
       /\ \A color \in CardColor :
              /\ UnoDeck_count(deck, UnoCard(color, 0, None)) = 1
              /\ \A n \in 1..9 : UnoDeck_count(deck, UnoCard(color, n, None)) = 2
              /\ \A act \in {SKIP, DRAWTWO, REVERSE} :
                     UnoDeck_count(deck, UnoCard(color, None, act)) = 2
              /\ CountWhere(deck, LAMBDA k : k.color = color) = 25
       /\ CountWhere(deck, LAMBDA k : k.number = 0) = 4
       /\ \A n \in 1..9 :
              CountWhere(deck, LAMBDA k : k.number = n) = 8
       /\ Cardinality(DOMAIN deck) = 2 + 4 * (1 + 9 + 3)
       /\ PER_COLOR_COUNT = 25
       /\ PER_ZERO_COUNT = 4
       /\ PER_NONZERO_COUNT = 8

\* C12 witness: the deck as UnoDeck() made it, with its keys in the order
\* they were assigned.
C12_Witness ==
    /\ last_call.op = "UnoDeck"
    /\ deck = UnoDeck_init
    /\ Len(UnoDeck_ks(deck)) = Cardinality(UnoDeck_keys)

\* C13: a draw from a deck with cards returns a card that had a copy left,
\* lowers len() by one and only that card's count, and drops the entry that
\* reaches 0; after 108 draws that returned a card the deck is empty, and a
\* draw from a deck without cards returns None and changes nothing.
C13_DrawToEnd ==
    [][last_call'.op = "draw"
       => /\ raised' = OK
          /\ calls' <= 108
          /\ (calls' = 108 => UnoDeck_len(deck') = 0)
          /\ IF UnoDeck_len(deck) > 0
             THEN /\ returned' # NoCard
                  /\ calls' = calls + 1
                  /\ UnoDeck_count(deck, returned'[1]) >= 1
                  /\ DOMAIN deck' =
                         {card \in DOMAIN deck :
                              card = returned'[1] => deck[card] > 1}
                  /\ \A card \in DOMAIN deck :
                         UnoDeck_count(deck', card) =
                             IF card = returned'[1] THEN deck[card] - 1
                             ELSE deck[card]
                  /\ UnoDeck_len(deck') = UnoDeck_len(deck) - 1
             ELSE /\ returned' = NoCard
                  /\ calls' = calls
                  /\ deck' = deck]_vars

\* C13 witness: 108 draws returned a card, and a later draw returned None.
C13_Witness ==
    /\ last_call.op = "draw"
    /\ calls = 108
    /\ returned = NoCard
    /\ UnoDeck_len(deck) = 0

\* C14: remove(card) of a card with count c >= 1 leaves it c - 1 copies and
\* the other counts as they were, dropping the entry when c = 1; remove(card)
\* of a card with count 0 raises and changes nothing, count(card) staying 0.
C14_RemoveDecrementsOrFails ==
    [][\A card \in RemoveCards :
          last_call' = Call("remove", None, <<card>>, None)
          => IF UnoDeck_count(deck, card) >= 1
             THEN /\ raised' = OK
                  /\ UnoDeck_count(deck', card) = UnoDeck_count(deck, card) - 1
                  /\ \A other \in (DOMAIN deck \cup DOMAIN deck') \ {card} :
                         UnoDeck_count(deck', other) = UnoDeck_count(deck, other)
                  /\ (UnoDeck_count(deck, card) = 1 => card \notin DOMAIN deck')
             ELSE /\ raised' # OK
                  /\ deck' = deck
                  /\ UnoDeck_count(deck', card) = 0]_vars

\* C14 witness: a remove of BLUE 1 has failed on a deck that has lost both
\* its copies.
C14_Witness ==
    /\ last_call = Call("remove", None, <<UnoCard(BLUE, 1, None)>>, None)
    /\ raised = "KeyError"
    /\ UnoDeck_count(deck, UnoCard(BLUE, 1, None)) = 0
    /\ UnoDeck_len(deck) > 0

\* C15: after any draws and removes, every entry of the deck has a count of
\* at least 1 and at most the count UnoDeck() gave the card, and the
\* assertion of draw has not failed.
C15_EntriesArePositive ==
    /\ raised # "AssertionError"
    /\ \A card \in DOMAIN deck :
           /\ card \in UnoDeck_keys
           /\ deck[card] >= 1
           /\ deck[card] <= UnoDeck_init[card]

\* C15 witness: draws and removes have both taken cards and entries are
\* gone: BLUE 1's after a remove, the plain wildcard's after draws.
C15_Witness ==
    /\ last_call = Call("remove", None, <<UnoCard(BLUE, 1, None)>>, None)
    /\ raised = OK
    /\ UnoCard(BLUE, 1, None) \notin DOMAIN deck
    /\ UnoCard(None, None, None) \notin DOMAIN deck
    /\ calls >= WILDCARD_COUNT

RECURSIVE Binomial(_, _)
\* The binomial coefficient of n over k, 0 <= k <= n, by the product formula.
Binomial(n, k) ==
    IF k = 0 THEN 1 ELSE (Binomial(n, k - 1) * (n - k + 1)) \div k

\* C16: for a table built with max_items = M and 0 <= k <= n <= M, nCr(n, k)
\* is the binomial coefficient: 1 for k = 0 and for k = n, the same as
\* nCr(n, n - k), and nCr(n - 1, k - 1) + nCr(n - 1, k) for 0 < k < n.
C16_TableIsBinomial ==
    LET M == Len(combination_count) - 1
        n == last_call.cards[1]
        k == last_call.cards[2]
    IN  (last_call.op = "nCr" /\ 0 <= k /\ k <= n /\ n <= M)
        => /\ raised = OK
           /\ returned = BigOf(Binomial(n, k))
           /\ (k = 0 \/ k = n => returned = BigOf(1))
           /\ returned = nCr(combination_count, n, n - k).value
           /\ (0 < k /\ k < n
               => returned = BigAdd(nCr(combination_count, n - 1, k - 1).value,
                                    nCr(combination_count, n - 1, k).value))

\* C16 witness: the largest table was asked for a coefficient in its middle,
\* one that does not fit a limb.
C16_Witness ==
    /\ last_call = Call("nCr", None, <<MaxItems, MaxItems \div 2>>, None)
    /\ Len(combination_count) = MaxItems + 1
    /\ raised = OK
    /\ Len(returned) >= 2

\* Two cards share an attribute that both have.
SharePresentAttribute(a, b) ==
    \/ (a.color # None /\ b.color # None /\ a.color = b.color)
    \/ (a.number # None /\ b.number # None /\ a.number = b.number)
    \/ (a.action # None /\ b.action # None /\ a.action = b.action)

\* C17: matches is reflexive and symmetric, a card with no colour and no
\* number matches every card, and two cards that both have a colour or a
\* number match exactly when they share a colour, a number or an action that
\* both have.
C17_MatchesRelation ==
    last_call.op = "matches"
    => LET a == last_call.cards[1]
           b == last_call.cards[2]
           wild(card) == card.color = None /\ card.number = None
       IN  /\ returned \in BOOLEAN
           /\ (a = b => returned)
           /\ returned = matches(b, a)
           /\ (wild(a) \/ wild(b) => returned)
           /\ (~wild(a) /\ ~wild(b)
               => (returned <=> SharePresentAttribute(a, b)))

\* C17 witness: GREEN 0 was matched with RED SKIP (test_matches_numeric_cards),
\* which differs from it in colour, number and action, and does not match.
C17_Witness ==
    /\ last_call = Call("matches", None,
                        <<UnoCard(GREEN, 0, None), UnoCard(RED, None, SKIP)>>,
                        None)
    /\ returned = FALSE

\* C18: after any calls of count, the exact-card total is the number of
\* calls, the by-colour, by-number and by-action totals are the numbers of
\* counted cards that have the attribute (so at most the exact-card total,
\* and equal to it only when every counted card has it), and no counter has
\* decreased.
C18_IndexTotals ==
    [][LET index == seen_counter'
           total == Counter_total(index.total_counts)
           color_total == Counter_total(index.color_counts)
           number_total == Counter_total(index.number_counts)
           action_total == Counter_total(index.action_counts)
       IN  last_call'.op = "count"
           => /\ total = calls'
              /\ color_total =
                     CountWhere(index.total_counts, LAMBDA k : k.color # None)
              /\ number_total =
                     CountWhere(index.total_counts, LAMBDA k : k.number # None)
              /\ action_total =
                     CountWhere(index.total_counts, LAMBDA k : k.action # None)
              /\ color_total <= total
              /\ number_total <= total
              /\ action_total <= total
              /\ (color_total = total
                  <=> \A k \in DOMAIN index.total_counts : k.color # None)
              /\ (number_total = total
                  <=> \A k \in DOMAIN index.total_counts : k.number # None)
              /\ (action_total = total
                  <=> \A k \in DOMAIN index.total_counts : k.action # None)
              /\ \A k \in CountCards :
                     Counter_get(index.total_counts, k) >=
                         Counter_get(seen_counter.total_counts, k)
              /\ \A color \in CardColor \cup {None} :
                     Counter_get(index.color_counts, color) >=
                         Counter_get(seen_counter.color_counts, color)
              /\ \A number \in (0..9) \cup {None} :
                     Counter_get(index.number_counts, number) >=
                         Counter_get(seen_counter.number_counts, number)
              /\ \A action \in CardAction \cup {None} :
                     Counter_get(index.action_counts, action) >=
                         Counter_get(seen_counter.action_counts, action)]_vars

\* C18 witness: the three cards of test_count and a plain wildcard were
\* counted: totals 3, 2, 1 and 4.
C18_Witness ==
    /\ last_call.op = "count"
    /\ calls = 4
    /\ Counter_total(seen_counter.color_counts) = 3
    /\ Counter_total(seen_counter.number_counts) = 2
    /\ Counter_total(seen_counter.action_counts) = 1
    /\ Counter_total(seen_counter.total_counts) = 4

\* The keys of a fresh deck that have the colour, and the number.
KeysOfColor == [color \in CardColor |-> {k \in UnoDeck_keys : k.color = color}]
KeysOfNumber == [number \in 0..9 |-> {k \in UnoDeck_keys : k.number = number}]

\* The unseen cards among keys, counted with their copies.
UnseenAmong(keys) ==
    SumOver([k \in keys |-> UnoDeck_count(unseen_cards, k)], keys)

\* C19: in every state of a tracker, for every colour the seen colour count
\* plus the unseen cards of the colour is 25, and for every number the seen
\* number count plus the unseen cards of the number is 4 for 0 and 8 for
\* 1..9; so the remaining counts card_requirement_probability computes are
\* the unseen cards with the attribute, between 0 and the size of the pool.
\* (The unseen pool has only keys of a fresh deck, so its cards of a colour
\* or of a number are among the fresh deck's keys of it.)
C19_SeenPlusUnseenPerAttribute ==
    /\ DOMAIN unseen_cards \subseteq UnoDeck_keys
    /\ \A color \in CardColor :
           LET seen == Counter_get(seen_counter.color_counts, color)
               unseen == UnseenAmong(KeysOfColor[color])
               remaining_color_unseen == PER_COLOR_COUNT - seen
           IN  /\ seen + unseen = 25
               /\ remaining_color_unseen = unseen
               /\ remaining_color_unseen >= 0
               /\ remaining_color_unseen <= UnoDeck_len(unseen_cards)
    /\ \A number \in 0..9 :
           LET seen == Counter_get(seen_counter.number_counts, number)
               unseen == UnseenAmong(KeysOfNumber[number])
               remaining_number_unseen ==
                   (IF number # 0 THEN PER_NONZERO_COUNT ELSE PER_ZERO_COUNT)
                   - seen
           IN  /\ seen + unseen = (IF number = 0 THEN 4 ELSE 8)
               /\ remaining_number_unseen = unseen
               /\ remaining_number_unseen >= 0
               /\ remaining_number_unseen <= UnoDeck_len(unseen_cards)

\* C19 witness: a call has failed after both copies of RED 1 were seen.
C19_Witness ==
    /\ raised = "KeyError"
    /\ Counter_get(seen_counter.number_counts, 1) = 2
    /\ Counter_get(seen_counter.color_counts, RED) >= 2
    /\ UnoDeck_count(unseen_cards, UnoCard(RED, 1, None)) = 0

\* C20: in a state reached by successful events in which count_deck() >= 0
\* and no hand size is negative, card_requirement_probability returns a
\* number for every card with a colour and every opponent: it does not
\* raise, whatever the opponent's hand size.
C20_ProbabilityIsTotal ==
    (/\ raised = OK
     /\ count_deck(Self) >= 0
     /\ \A i \in 1..Len(other_players_card_counts) :
            other_players_card_counts[i] >= 0)
    => \A card \in {c \in EventCards : c.color # None},
          next_player \in NextPlayers :
           card_requirement_probability(Self, card, next_player).raised = OK
====
